---- MODULE Spec2Model ----
(***************************************************************************)
(* Model of the bit-banged PS/2 GPIO driver                                *)
(* (app/module/drivers/ps2/ps2_gpio.c).                                    *)
(*                                                                         *)
(* The driver state (struct ps2_gpio_data) is the set of variables below.  *)
(* The two clock-edge interrupt handlers run to completion and are one     *)
(* action each.  The driver API runs in thread context and is interrupted  *)
(* by the handlers between statements, so every API function is a          *)
(* sequence of steps driven by the thread's program counter pc.            *)
(***************************************************************************)
EXTENDS Integers, Sequences, FiniteSets, TLC

VARIABLES
    mode,              \* data->mode
    cur_read_byte,     \* data->cur_read_byte (uint8_t)
    cur_read_pos,      \* data->cur_read_pos
    write_buffer,      \* data->write_buffer (uint16_t)
    cur_write_pos,     \* data->cur_write_pos
    callback_isr,      \* data->callback_isr
    callback_enabled,  \* data->callback_enabled
    data_queue,        \* data->data_queue (k_fifo), head first
    scl_pin,           \* level last written to the clock pin (config->scl_pin)
    sda_pin,           \* level last written to the data pin (config->sda_pin)
    pc,                \* position of the thread inside the driver API
    op,                \* API function the thread is executing
    arg,               \* its argument
    out_value,         \* the caller's output byte of ps2_gpio_read (*value)
    elapsed,           \* seconds the thread has been blocked in k_fifo_get
    dev_byte,          \* byte the device is currently clocking out
    delivered,         \* history: number of calls of ps2_gpio_process_received_byte
    cb_received,       \* the listener: [calls, last], how often callback_isr was
                       \* called and the byte of the last call
    reads,             \* history: number of successful reads
    wire,              \* history: pin writes <<pin, level>> since ps2_gpio_write_byte
                       \* began, recorded while that write is clean
    wb,                \* history of that write: [byte, clean], clean while no falling
                       \* edge was handled before the function returned
    mark,              \* history: [at, queued], the values of delivered and of the
                       \* queue length when the current API call began
    last_abort,        \* history kept on the noisy line of SpecNoise: [pos, acc],
                       \* the receive position and byte at the latest abort
    event              \* the step that led to this state: for an interrupt its
                       \* outcome, the data level sampled and, when a frame ends,
                       \* the receive position it ended at, for an API return
                       \* the function, its argument, the value returned and the
                       \* mark taken when the call began

vars == <<mode, cur_read_byte, cur_read_pos, write_buffer, cur_write_pos,
          callback_isr, callback_enabled, data_queue, scl_pin, sda_pin,
          pc, op, arg, out_value, elapsed, dev_byte,
          delivered, cb_received, reads, wire, wb, mark, last_abort, event>>

drv_vars == <<mode, cur_read_byte, cur_read_pos, write_buffer, cur_write_pos,
              callback_isr, callback_enabled, data_queue, scl_pin, sda_pin>>

thread_vars == <<pc, op, arg, out_value, elapsed, mark>>

-----------------------------------------------------------------------------
(* Bounds of the model                                                     *)

\* how many of DeviceByteList the device may send
NumDeviceBytes == 2
\* how many of WriteByteList the host may be asked to transmit
NumWriteBytes == 1
\* decoded bytes per run
MaxDeliver == 2
\* falling edges in Write mode are followed up to this write position
MaxWritePos == 12

DeviceByteList == <<28, 254, 0, 255, 170>>
WriteByteList == <<254, 237, 0, 255>>

DeviceBytes == {DeviceByteList[i] : i \in 1..NumDeviceBytes}
WriteBytes == {WriteByteList[i] : i \in 1..NumWriteBytes}
Bytes == 0..255
Levels == {0, 1}

-----------------------------------------------------------------------------
(* Program constants                                                       *)

PS2_GPIO_MODE_READ == "READ"
PS2_GPIO_MODE_WRITE == "WRITE"
PS2_GPIO_TIMEOUT_READ == 2
PS2_GPIO_POS_START == 0
PS2_GPIO_POS_PARITY == 9
PS2_GPIO_POS_STOP == 10
PS2_GPIO_POS_ACK == 11
\* a null pointer, and the addresses of the listeners a caller may register
NULL == 0
Listeners == {1}

-----------------------------------------------------------------------------
(* Bit helpers                                                             *)

RECURSIVE Pow2(_)
Pow2(n) == IF n = 0 THEN 1 ELSE 2 * Pow2(n - 1)

\* #define PS2_GPIO_GET_BIT(data, bit_pos) ( (data >> bit_pos) & 0x1 )
PS2_GPIO_GET_BIT(data, bit_pos) == (data \div Pow2(bit_pos)) % 2

\* #define PS2_GPIO_SET_BIT(data, bit_val, bit_pos) ( data |= (bit_val) << bit_pos )
\* bit_val is 0 or 1, so the OR adds 2^bit_pos unless the bit is already set
PS2_GPIO_SET_BIT(data, bit_val, bit_pos) ==
    IF bit_val = 1 /\ PS2_GPIO_GET_BIT(data, bit_pos) = 0
    THEN data + Pow2(bit_pos)
    ELSE data

\* __builtin_parity: 1 iff the number of set bits is odd
RECURSIVE builtin_parity(_)
builtin_parity(x) == IF x = 0 THEN 0 ELSE ((x % 2) + builtin_parity(x \div 2)) % 2

\* fault: every parity bit is accepted
Faulty_check_parity_accepts_all(byte, parity_bit_val) == TRUE

\* fault: the comparison the other way round (even parity accepted)
Faulty_check_parity_even(byte, parity_bit_val) ==
    IF builtin_parity(byte) = parity_bit_val THEN TRUE ELSE FALSE

ps2_gpio_check_parity(byte, parity_bit_val) ==
    IF builtin_parity(byte) = parity_bit_val THEN FALSE ELSE TRUE

\* fault: the parity of the byte itself, not its negation
Faulty_get_byte_parity_even(byte) == builtin_parity(byte)

ps2_gpio_get_byte_parity(byte) ==
    IF builtin_parity(byte) = 0 THEN 1 ELSE 0

\* the eleven PS2_GPIO_SET_BIT calls of ps2_gpio_write_byte on a zeroed buffer
RECURSIVE SetDataBits(_, _, _)
SetDataBits(buf, byte, i) ==
    IF i > 7 THEN buf
    ELSE SetDataBits(PS2_GPIO_SET_BIT(buf, PS2_GPIO_GET_BIT(byte, i), i + 1), byte, i + 1)

EncodeFrame(byte) ==
    LET b0 == PS2_GPIO_SET_BIT(0, 0, 0)
        b8 == SetDataBits(b0, byte, 0)
        b9 == PS2_GPIO_SET_BIT(b8, ps2_gpio_get_byte_parity(byte), 9)
    IN  PS2_GPIO_SET_BIT(b9, 1, 10) % 65536

-----------------------------------------------------------------------------
(* Initial state: the static initialiser of ps2_gpio_data followed by      *)
(* ps2_gpio_init, which writes 1 to both pins and creates the empty fifo.  *)

Event(src, outcome, sda) ==
    [src |-> src, outcome |-> outcome, sda |-> sda, pos |-> 0,
     op |-> "none", arg |-> NULL, val |-> "none", since |-> [at |-> 0, queued |-> 0]]

ThreadStep == Event("thread", "step", 0)

InitDriver ==
    /\ mode = PS2_GPIO_MODE_READ
    /\ cur_read_byte = 0
    /\ cur_read_pos = 0
    /\ write_buffer = 0
    /\ cur_write_pos = 0
    /\ data_queue = <<>>
    /\ scl_pin = 1
    /\ sda_pin = 1
    /\ pc = "idle"
    /\ op = "none"
    /\ arg = NULL
    /\ out_value = 0
    /\ elapsed = 0
    /\ delivered = 0
    /\ cb_received = [calls |-> 0, last |-> 0]
    /\ reads = 0
    /\ wire = <<>>
    /\ wb = [byte |-> 0, clean |-> FALSE]
    /\ mark = [at |-> 0, queued |-> 0]
    /\ last_abort = [pos |-> -1, acc |-> 0]
    /\ event = Event("init", "none", 0)

Init ==
    /\ InitDriver
    /\ callback_isr = NULL
    /\ callback_enabled = FALSE
    /\ dev_byte = DeviceByteList[1]

-----------------------------------------------------------------------------
(* Line helpers.  ps2_gpio_set_scl passes sda_gpio/sda_pin to gpio_pin_set *)
(* and ps2_gpio_set_sda passes scl_gpio/scl_pin.                           *)

ps2_gpio_set_scl(state) ==
    /\ sda_pin' = state
    /\ scl_pin' = scl_pin
    /\ wire' = IF wb.clean THEN Append(wire, <<"sda", state>>) ELSE wire

ps2_gpio_set_sda(state) ==
    /\ scl_pin' = state
    /\ sda_pin' = sda_pin
    /\ wire' = IF wb.clean THEN Append(wire, <<"scl", state>>) ELSE wire

\* "Not implemented": changes nothing and returns -1
ps2_gpio_send_byte(byte) == "-1"

ps2_gpio_send_cmd_resend == ps2_gpio_send_byte(254)

-----------------------------------------------------------------------------
(* Reading PS/2 data                                                       *)

\* fault: the enabled flag is not consulted
Faulty_process_received_byte_flag_ignored(byte) ==
    /\ delivered' = delivered + 1
    /\ IF callback_isr # NULL
       THEN /\ cb_received' = [calls |-> cb_received.calls + 1, last |-> byte]
            /\ data_queue' = data_queue
       ELSE /\ data_queue' = Append(data_queue, [seq |-> delivered + 1, val |-> byte])
            /\ cb_received' = cb_received

\* k_fifo_put(&data->data_queue, &byte): the item queued is the address of the
\* parameter byte, which dies when the function returns.  The entry records
\* history only: seq, the number of the delivery, and val, the byte that was
\* at that address when it was queued.
ps2_gpio_process_received_byte(byte) ==
    /\ delivered' = delivered + 1
    /\ IF callback_isr # NULL /\ callback_enabled
       THEN /\ cb_received' = [calls |-> cb_received.calls + 1, last |-> byte]
            /\ data_queue' = data_queue
       ELSE /\ data_queue' = Append(data_queue, [seq |-> delivered + 1, val |-> byte])
            /\ cb_received' = cb_received

\* fault: the accumulated byte survives the abort
Faulty_abort_read_keeps_byte(sda_val) ==
    LET err == ps2_gpio_send_cmd_resend
    IN  /\ cur_read_pos' = 0
        /\ cur_read_byte' = cur_read_byte
        /\ event' = [Event("falling", "abort", sda_val) EXCEPT !.pos = cur_read_pos]
        /\ UNCHANGED <<delivered, cb_received, data_queue>>

ps2_gpio_abort_read(sda_val) ==
    LET err == ps2_gpio_send_cmd_resend
    IN  /\ cur_read_pos' = 0
        /\ cur_read_byte' = 0
        /\ event' = [Event("falling", "abort", sda_val) EXCEPT !.pos = cur_read_pos]
        /\ UNCHANGED <<delivered, cb_received, data_queue>>

\* fault: the start bit is not checked, position 0 advances on any sample
Faulty_read_bit_start_unchecked(sda_val) ==
    /\ IF cur_read_pos = PS2_GPIO_POS_START
       THEN /\ cur_read_pos' = cur_read_pos + 1
            /\ cur_read_byte' = cur_read_byte
            /\ event' = Event("falling", "advance", sda_val)
            /\ UNCHANGED <<delivered, cb_received, data_queue>>
       ELSE IF cur_read_pos = PS2_GPIO_POS_PARITY
       THEN IF ps2_gpio_check_parity(cur_read_byte, sda_val) # TRUE
            THEN ps2_gpio_abort_read(sda_val)
            ELSE /\ cur_read_pos' = cur_read_pos + 1
                 /\ cur_read_byte' = cur_read_byte
                 /\ event' = Event("falling", "advance", sda_val)
                 /\ UNCHANGED <<delivered, cb_received, data_queue>>
       ELSE IF cur_read_pos = PS2_GPIO_POS_STOP
       THEN IF sda_val # 1
            THEN ps2_gpio_abort_read(sda_val)
            ELSE /\ ps2_gpio_process_received_byte(cur_read_byte)
                 /\ cur_read_pos' = 0
                 /\ cur_read_byte' = 0
                 /\ event' = [Event("falling", "deliver", sda_val)
                                 EXCEPT !.arg = cur_read_byte, !.pos = cur_read_pos]
       ELSE /\ cur_read_byte' =
                   PS2_GPIO_SET_BIT(cur_read_byte, sda_val, cur_read_pos - 1) % 256
            /\ cur_read_pos' = cur_read_pos + 1
            /\ event' = Event("falling", "advance", sda_val)
            /\ UNCHANGED <<delivered, cb_received, data_queue>>
    /\ UNCHANGED <<mode, write_buffer, cur_write_pos, scl_pin, sda_pin, wire>>

ps2_gpio_scl_interrupt_falling_read_bit(sda_val) ==
    /\ IF cur_read_pos = PS2_GPIO_POS_START
       THEN IF sda_val # 0
            THEN ps2_gpio_abort_read(sda_val)
            ELSE /\ cur_read_pos' = cur_read_pos + 1
                 /\ cur_read_byte' = cur_read_byte
                 /\ event' = Event("falling", "advance", sda_val)
                 /\ UNCHANGED <<delivered, cb_received, data_queue>>
       ELSE IF cur_read_pos = PS2_GPIO_POS_PARITY
       THEN IF ps2_gpio_check_parity(cur_read_byte, sda_val) # TRUE
            THEN ps2_gpio_abort_read(sda_val)
            ELSE /\ cur_read_pos' = cur_read_pos + 1
                 /\ cur_read_byte' = cur_read_byte
                 /\ event' = Event("falling", "advance", sda_val)
                 /\ UNCHANGED <<delivered, cb_received, data_queue>>
       ELSE IF cur_read_pos = PS2_GPIO_POS_STOP
       THEN IF sda_val # 1
            THEN ps2_gpio_abort_read(sda_val)
            ELSE /\ ps2_gpio_process_received_byte(cur_read_byte)
                 /\ cur_read_pos' = 0
                 /\ cur_read_byte' = 0
                 /\ event' = [Event("falling", "deliver", sda_val)
                                 EXCEPT !.arg = cur_read_byte, !.pos = cur_read_pos]
       ELSE /\ cur_read_byte' =
                   PS2_GPIO_SET_BIT(cur_read_byte, sda_val, cur_read_pos - 1) % 256
            /\ cur_read_pos' = cur_read_pos + 1
            /\ event' = Event("falling", "advance", sda_val)
            /\ UNCHANGED <<delivered, cb_received, data_queue>>
    /\ UNCHANGED <<mode, write_buffer, cur_write_pos, scl_pin, sda_pin, wire>>

-----------------------------------------------------------------------------
(* Writing PS/2 data: the interrupt side                                   *)

\* fault: the handler that sends the stop bit also ends the transaction
Faulty_write_bit_ends_transaction(sda_val) ==
    LET data_bit == PS2_GPIO_GET_BIT(write_buffer, cur_write_pos)
    IN  /\ ps2_gpio_set_sda(data_bit)
        /\ cur_write_pos' = cur_write_pos + 1
        /\ mode' = IF cur_write_pos = PS2_GPIO_POS_STOP THEN PS2_GPIO_MODE_READ ELSE mode
        /\ event' = Event("falling", "write_bit", sda_val)
        /\ UNCHANGED <<write_buffer, cur_read_byte, cur_read_pos,
                       delivered, cb_received, data_queue>>

ps2_gpio_scl_interrupt_falling_write_bit(sda_val) ==
    LET data_bit == PS2_GPIO_GET_BIT(write_buffer, cur_write_pos)
    IN  /\ ps2_gpio_set_sda(data_bit)
        /\ cur_write_pos' = cur_write_pos + 1
        /\ event' = Event("falling", "write_bit", sda_val)
        /\ UNCHANGED <<mode, write_buffer, cur_read_byte, cur_read_pos,
                       delivered, cb_received, data_queue>>

\* fault: a rejected frame (ack 1) is sent again
Faulty_check_write_ack_resends(ack_val) ==
    /\ mode' = IF ack_val = 0 THEN PS2_GPIO_MODE_READ ELSE mode
    /\ write_buffer' = IF ack_val = 0 THEN 0 ELSE write_buffer
    /\ cur_write_pos' = 0
    /\ event' = Event("rising", "ack", ack_val)

ps2_gpio_scl_interrupt_rising_check_write_ack(ack_val) ==
    /\ mode' = PS2_GPIO_MODE_READ
    /\ write_buffer' = 0
    /\ cur_write_pos' = 0
    /\ event' = Event("rising", "ack", ack_val)

-----------------------------------------------------------------------------
(* Interrupt handlers.  Each clock edge is handled to completion.  The     *)
(* device clocks out the frame of dev_byte, chosen from `bytes` when the   *)
(* driver expects a start bit; with `noisy` the framing bits (start,       *)
(* parity, stop) may also arrive inverted.                                 *)

WbSteps == {"wb_scl_low", "wb_sleep", "wb_reset_byte", "wb_reset_pos",
            "wb_start_bit", "wb_advance", "wb_release"}

FramingPos == {PS2_GPIO_POS_START, PS2_GPIO_POS_PARITY, PS2_GPIO_POS_STOP}

SdaSamples(byte, noisy) ==
    IF mode = PS2_GPIO_MODE_READ
    THEN LET good == PS2_GPIO_GET_BIT(EncodeFrame(byte), cur_read_pos)
         IN  IF noisy /\ cur_read_pos \in FramingPos THEN Levels ELSE {good}
    ELSE {0}

FallingEdge(bytes, noisy) ==
    /\ mode = PS2_GPIO_MODE_READ /\ cur_read_pos = PS2_GPIO_POS_START
          => delivered < MaxDeliver
    /\ mode = PS2_GPIO_MODE_WRITE => cur_write_pos < MaxWritePos
    /\ \E next_byte \in (IF mode = PS2_GPIO_MODE_READ /\ cur_read_pos = PS2_GPIO_POS_START
                         THEN bytes ELSE {dev_byte}) :
         \E sda_val \in SdaSamples(next_byte, noisy) :
            /\ dev_byte' = next_byte
            /\ IF mode = PS2_GPIO_MODE_READ
               THEN ps2_gpio_scl_interrupt_falling_read_bit(sda_val)
               ELSE ps2_gpio_scl_interrupt_falling_write_bit(sda_val)
    /\ wb' = IF pc \in WbSteps THEN [wb EXCEPT !.clean = FALSE] ELSE wb
    /\ UNCHANGED <<callback_isr, callback_enabled, reads>>
    /\ UNCHANGED thread_vars

ps2_gpio_scl_interrupt_falling_handler ==
    /\ FallingEdge(DeviceBytes, TRUE)
    /\ UNCHANGED last_abort

\* fault: the ack check runs on every rising edge in Write mode
Faulty_rising_handler_any_position ==
    /\ IF mode = PS2_GPIO_MODE_WRITE
       THEN \E ack_val \in Levels :
               ps2_gpio_scl_interrupt_rising_check_write_ack(ack_val)
       ELSE /\ event' = Event("rising", "ignored", 0)
            /\ UNCHANGED <<mode, write_buffer, cur_write_pos>>
    /\ UNCHANGED <<cur_read_byte, cur_read_pos, callback_isr, callback_enabled,
                   data_queue, scl_pin, sda_pin, dev_byte,
                   delivered, cb_received, reads, last_abort, wire, wb>>
    /\ UNCHANGED thread_vars

ps2_gpio_scl_interrupt_rising_handler ==
    /\ IF cur_write_pos = PS2_GPIO_POS_ACK
       THEN \E ack_val \in Levels :
               ps2_gpio_scl_interrupt_rising_check_write_ack(ack_val)
       ELSE /\ event' = Event("rising", "ignored", 0)
            /\ UNCHANGED <<mode, write_buffer, cur_write_pos>>
    /\ UNCHANGED <<cur_read_byte, cur_read_pos, callback_isr, callback_enabled,
                   data_queue, scl_pin, sda_pin, dev_byte,
                   delivered, cb_received, reads, last_abort, wire, wb>>
    /\ UNCHANGED thread_vars

-----------------------------------------------------------------------------
(* Driver API, thread context.  pc = "idle" means the thread is outside    *)
(* the driver; every other value is a statement about to be executed.      *)

Return(o, a, v) ==
    /\ pc' = "idle"
    /\ event' = [src |-> "thread", outcome |-> "return", sda |-> 0, pos |-> 0,
                 op |-> o, arg |-> a, val |-> v, since |-> mark]
    /\ op' = "none"
    /\ arg' = NULL
    /\ mark' = [at |-> 0, queued |-> 0]

Enter(o, a, next_pc) ==
    /\ op' = o
    /\ arg' = a
    /\ pc' = next_pc
    /\ mark' = [at |-> delivered, queued |-> Len(data_queue)]
    /\ event' = ThreadStep

Goto(next_pc) ==
    /\ pc' = next_pc
    /\ event' = ThreadStep
    /\ UNCHANGED <<op, arg, mark>>

\* fault: the null check is missing
Faulty_configure_no_null_check ==
    /\ pc = "idle"
    /\ \E callback \in Listeners \cup {NULL} :
         /\ callback_isr' = callback
         /\ Enter("configure", callback, "enable_set")
    /\ UNCHANGED <<mode, cur_read_byte, cur_read_pos, write_buffer, cur_write_pos,
                   callback_enabled, data_queue, scl_pin, sda_pin>>
    /\ UNCHANGED <<out_value, elapsed, dev_byte, delivered, cb_received,
                   reads, last_abort, wire, wb>>

ps2_gpio_configure ==
    /\ pc = "idle"
    /\ \E callback \in Listeners \cup {NULL} :
         IF callback = NULL
         THEN /\ Return("configure", callback, "-EINVAL")
              /\ callback_isr' = callback_isr
         ELSE /\ callback_isr' = callback
              /\ Enter("configure", callback, "enable_set")
    /\ UNCHANGED <<mode, cur_read_byte, cur_read_pos, write_buffer, cur_write_pos,
                   callback_enabled, data_queue, scl_pin, sda_pin>>
    /\ UNCHANGED <<out_value, elapsed, dev_byte, delivered, cb_received,
                   reads, last_abort, wire, wb>>

\* fault: enabling is refused while no listener is registered
Faulty_enable_callback_needs_listener ==
    /\ pc \in {"idle", "enable_set"}
    /\ IF callback_isr = NULL
       THEN /\ Return("enable_callback", NULL, "-EINVAL")
            /\ callback_enabled' = callback_enabled
       ELSE /\ callback_enabled' = TRUE
            /\ IF pc = "idle"
               THEN Enter("enable_callback", NULL, "flush")
               ELSE Goto("flush")
    /\ UNCHANGED <<mode, cur_read_byte, cur_read_pos, write_buffer, cur_write_pos,
                   callback_isr, data_queue, scl_pin, sda_pin>>
    /\ UNCHANGED <<out_value, elapsed, dev_byte, delivered, cb_received,
                   reads, last_abort, wire, wb>>

ps2_gpio_enable_callback ==
    /\ pc \in {"idle", "enable_set"}
    /\ callback_enabled' = TRUE
    /\ IF pc = "idle"
       THEN Enter("enable_callback", NULL, "flush")
       ELSE Goto("flush")
    /\ UNCHANGED <<mode, cur_read_byte, cur_read_pos, write_buffer, cur_write_pos,
                   callback_isr, data_queue, scl_pin, sda_pin>>
    /\ UNCHANGED <<out_value, elapsed, dev_byte, delivered, cb_received,
                   reads, last_abort, wire, wb>>

\* fault: a single k_fifo_get instead of the loop
Faulty_empty_data_queue_single_get ==
    /\ pc = "flush"
    /\ data_queue' = IF data_queue # <<>> THEN Tail(data_queue) ELSE data_queue
    /\ Goto(IF op = "disable_callback" THEN "disable_clear" ELSE "return")
    /\ UNCHANGED <<mode, cur_read_byte, cur_read_pos, write_buffer, cur_write_pos,
                   callback_isr, callback_enabled, scl_pin, sda_pin>>
    /\ UNCHANGED <<out_value, elapsed, dev_byte, delivered, cb_received,
                   reads, last_abort, wire, wb>>

\* one iteration of while(k_fifo_get(&data->data_queue, K_NO_WAIT) != NULL)
ps2_gpio_empty_data_queue ==
    /\ pc = "flush"
    /\ IF data_queue # <<>>
       THEN /\ data_queue' = Tail(data_queue)
            /\ Goto("flush")
       ELSE /\ data_queue' = data_queue
            /\ Goto(IF op = "disable_callback" THEN "disable_clear" ELSE "return")
    /\ UNCHANGED <<mode, cur_read_byte, cur_read_pos, write_buffer, cur_write_pos,
                   callback_isr, callback_enabled, scl_pin, sda_pin>>
    /\ UNCHANGED <<out_value, elapsed, dev_byte, delivered, cb_received,
                   reads, last_abort, wire, wb>>

ps2_gpio_disable_callback ==
    /\ pc \in {"idle", "disable_clear"}
    /\ IF pc = "idle"
       THEN /\ Enter("disable_callback", NULL, "flush")
            /\ callback_enabled' = callback_enabled
       ELSE /\ callback_enabled' = FALSE
            /\ Goto("return")
    /\ UNCHANGED <<mode, cur_read_byte, cur_read_pos, write_buffer, cur_write_pos,
                   callback_isr, data_queue, scl_pin, sda_pin>>
    /\ UNCHANGED <<out_value, elapsed, dev_byte, delivered, cb_received,
                   reads, last_abort, wire, wb>>

\* the "return 0" that ends configure, enable_callback and disable_callback
api_return ==
    /\ pc = "return"
    /\ Return(op, arg, "0")
    /\ UNCHANGED drv_vars
    /\ UNCHANGED <<out_value, elapsed, dev_byte, delivered, cb_received,
                   reads, last_abort, wire, wb>>

\* "Not implemented: ps2_gpio_write"
ps2_gpio_write ==
    /\ pc = "idle"
    /\ \E value \in WriteBytes : Return("write", value, "0")
    /\ UNCHANGED drv_vars
    /\ UNCHANGED <<out_value, elapsed, dev_byte, delivered, cb_received,
                   reads, last_abort, wire, wb>>

\* What *queue_byte can yield in ps2_gpio_read: the item is the address of a
\* parameter of a function that has returned, so the byte there is whatever the
\* stack holds by then (the byte once stored there is one possibility).
DeadSlotValues == DeviceBytes \cup {0}

\* entry: k_fifo_get(&data->data_queue, PS2_GPIO_TIMEOUT_READ) starts to wait
ps2_gpio_read ==
    /\ pc = "idle"
    /\ Enter("read", NULL, "read_wait")
    /\ elapsed' = 0
    /\ UNCHANGED drv_vars
    /\ UNCHANGED <<out_value, dev_byte, delivered, cb_received, reads, last_abort, wire, wb>>

\* one second passes while the thread is blocked on the empty fifo
k_fifo_get_wait ==
    /\ pc = "read_wait"
    /\ data_queue = <<>>
    /\ elapsed < PS2_GPIO_TIMEOUT_READ
    /\ elapsed' = elapsed + 1
    /\ Goto("read_wait")
    /\ UNCHANGED drv_vars
    /\ UNCHANGED <<out_value, dev_byte, delivered, cb_received, reads, last_abort, wire, wb>>

\* k_fifo_get returned an item: *value = *queue_byte; return 0
ps2_gpio_read_item ==
    /\ pc = "read_wait"
    /\ data_queue # <<>>
    /\ data_queue' = Tail(data_queue)
    /\ \E queue_byte \in DeadSlotValues : out_value' = queue_byte
    /\ reads' = reads + 1
    /\ Return("read", Head(data_queue), "0")
    /\ UNCHANGED <<mode, cur_read_byte, cur_read_pos, write_buffer, cur_write_pos,
                   callback_isr, callback_enabled, scl_pin, sda_pin>>
    /\ UNCHANGED <<elapsed, dev_byte, delivered, cb_received, wire, wb, last_abort>>

\* fault: k_fifo_get with K_NO_WAIT, the timeout is not waited for
Faulty_read_timeout_no_wait ==
    /\ pc = "read_wait"
    /\ data_queue = <<>>
    /\ Return("read", NULL, "-ETIMEDOUT")
    /\ UNCHANGED drv_vars
    /\ UNCHANGED <<out_value, elapsed, dev_byte, delivered, cb_received,
                   reads, last_abort, wire, wb>>

\* k_fifo_get returned NULL: return -ETIMEDOUT
ps2_gpio_read_timeout ==
    /\ pc = "read_wait"
    /\ data_queue = <<>>
    /\ elapsed = PS2_GPIO_TIMEOUT_READ
    /\ Return("read", NULL, "-ETIMEDOUT")
    /\ UNCHANGED drv_vars
    /\ UNCHANGED <<out_value, elapsed, dev_byte, delivered, cb_received,
                   reads, last_abort, wire, wb>>

-----------------------------------------------------------------------------
(* Writing PS/2 data: ps2_gpio_write_byte, statement by statement          *)

\* the statements up to data->cur_write_pos = 0, for a byte of `bytes`
WriteByteBegin(bytes) ==
    /\ pc = "idle"
    /\ \E byte \in bytes :
         /\ write_buffer' = EncodeFrame(byte)
         /\ Enter("write_byte", byte, "wb_scl_low")
         /\ wb' = [byte |-> byte, clean |-> TRUE]
    /\ cur_write_pos' = 0
    /\ wire' = <<>>
    /\ UNCHANGED <<mode, cur_read_byte, cur_read_pos, callback_isr, callback_enabled,
                   data_queue, scl_pin, sda_pin>>
    /\ UNCHANGED <<out_value, elapsed, dev_byte, delivered, cb_received, reads, last_abort>>

write_byte_begin == WriteByteBegin(WriteBytes)

write_byte_scl_low ==
    /\ pc = "wb_scl_low"
    /\ ps2_gpio_set_scl(0)
    /\ Goto("wb_sleep")
    /\ UNCHANGED <<mode, cur_read_byte, cur_read_pos, write_buffer, cur_write_pos,
                   callback_isr, callback_enabled, data_queue>>
    /\ UNCHANGED <<out_value, elapsed, dev_byte, delivered, cb_received, reads, last_abort, wb>>

\* k_sleep(K_USEC(110)) is over: data->mode = PS2_GPIO_MODE_WRITE
write_byte_mode ==
    /\ pc = "wb_sleep"
    /\ mode' = PS2_GPIO_MODE_WRITE
    /\ Goto("wb_reset_byte")
    /\ UNCHANGED <<cur_read_byte, cur_read_pos, write_buffer, cur_write_pos,
                   callback_isr, callback_enabled, data_queue, scl_pin, sda_pin>>
    /\ UNCHANGED <<out_value, elapsed, dev_byte, delivered, cb_received, reads, last_abort,
                   wire, wb>>

write_byte_reset_read ==
    /\ pc \in {"wb_reset_byte", "wb_reset_pos"}
    /\ IF pc = "wb_reset_byte"
       THEN /\ cur_read_byte' = 0
            /\ cur_read_pos' = cur_read_pos
            /\ Goto("wb_reset_pos")
       ELSE /\ cur_read_pos' = 0
            /\ cur_read_byte' = cur_read_byte
            /\ Goto("wb_start_bit")
    /\ UNCHANGED <<mode, write_buffer, cur_write_pos,
                   callback_isr, callback_enabled, data_queue, scl_pin, sda_pin>>
    /\ UNCHANGED <<out_value, elapsed, dev_byte, delivered, cb_received, reads, last_abort,
                   wire, wb>>

write_byte_start_bit ==
    /\ pc \in {"wb_start_bit", "wb_advance"}
    /\ IF pc = "wb_start_bit"
       THEN /\ ps2_gpio_set_sda(PS2_GPIO_GET_BIT(write_buffer, 0))
            /\ cur_write_pos' = cur_write_pos
            /\ Goto("wb_advance")
       ELSE /\ cur_write_pos' = cur_write_pos + 1
            /\ Goto("wb_release")
            /\ UNCHANGED <<scl_pin, sda_pin, wire>>
    /\ UNCHANGED <<mode, cur_read_byte, cur_read_pos, write_buffer,
                   callback_isr, callback_enabled, data_queue>>
    /\ UNCHANGED <<out_value, elapsed, dev_byte, delivered, cb_received, reads, last_abort, wb>>

write_byte_release ==
    /\ pc = "wb_release"
    /\ ps2_gpio_set_scl(1)
    /\ Return("write_byte", arg, "void")
    /\ UNCHANGED <<mode, cur_read_byte, cur_read_pos, write_buffer, cur_write_pos,
                   callback_isr, callback_enabled, data_queue>>
    /\ UNCHANGED <<out_value, elapsed, dev_byte, delivered, cb_received,
                   reads, last_abort, wb>>

ps2_gpio_write_byte ==
    \/ write_byte_begin
    \/ write_byte_scl_low
    \/ write_byte_mode
    \/ write_byte_reset_read
    \/ write_byte_start_bit
    \/ write_byte_release

-----------------------------------------------------------------------------
(* Spec: the driver as built.  Nothing in the driver calls                 *)
(* ps2_gpio_write_byte, so its API and its two interrupt handlers are the  *)
(* operations.                                                             *)

Next ==
    \/ ps2_gpio_scl_interrupt_falling_handler
    \/ ps2_gpio_scl_interrupt_rising_handler
    \/ ps2_gpio_configure
    \/ ps2_gpio_enable_callback
    \/ ps2_gpio_disable_callback
    \/ ps2_gpio_empty_data_queue
    \/ api_return
    \/ ps2_gpio_read
    \/ k_fifo_get_wait
    \/ ps2_gpio_read_item
    \/ ps2_gpio_read_timeout
    \/ ps2_gpio_write

Spec == Init /\ [][Next]_vars

-----------------------------------------------------------------------------
(* SpecFrame: the receive state machine fed one noise-free frame after     *)
(* another of one byte, for every byte and every callback configuration.   *)

InitFrame ==
    /\ InitDriver
    /\ callback_isr \in Listeners \cup {NULL}
    /\ callback_enabled \in BOOLEAN
    /\ dev_byte \in Bytes

receive_frame_bit ==
    /\ FallingEdge({dev_byte}, FALSE)
    /\ UNCHANGED last_abort

NextFrame == receive_frame_bit

SpecFrame == InitFrame /\ [][NextFrame]_vars

-----------------------------------------------------------------------------
(* SpecNoise: the receive state machine on a noisy line, for every byte b  *)
(* and every callback configuration.  Each frame the device sends is the   *)
(* frame of b or of its complement 255 - b, and its start, parity and stop *)
(* bit may arrive inverted.                                                *)

noisy_frame_bit ==
    /\ FallingEdge({dev_byte, 255 - dev_byte}, TRUE)
    /\ last_abort' = IF event'.outcome = "abort"
                     THEN [pos |-> cur_read_pos, acc |-> cur_read_byte]
                     ELSE last_abort

NextNoise == noisy_frame_bit

SpecNoise == InitFrame /\ [][NextNoise]_vars

-----------------------------------------------------------------------------
(* SpecRead: frames arrive and the thread only calls ps2_gpio_read, so no  *)
(* callback is ever enabled and nothing flushes the queue.                 *)

NextRead ==
    \/ ps2_gpio_scl_interrupt_falling_handler
    \/ ps2_gpio_read
    \/ k_fifo_get_wait
    \/ ps2_gpio_read_item
    \/ ps2_gpio_read_timeout

SpecRead == Init /\ [][NextRead]_vars

-----------------------------------------------------------------------------
(* SpecTx: the transmit path.  ps2_gpio_write_byte has external linkage    *)
(* and is called from thread context while the device clocks the line.     *)

\* the device sends noise-free frames of one byte
tx_falling_edge ==
    /\ FallingEdge({DeviceByteList[1]}, FALSE)
    /\ UNCHANGED last_abort

NextTx ==
    \/ tx_falling_edge
    \/ ps2_gpio_scl_interrupt_rising_handler
    \/ ps2_gpio_write_byte

SpecTx == Init /\ [][NextTx]_vars

\* the statements of ps2_gpio_write_byte after its first: once called, the
\* function runs to its end
write_byte_continue ==
    \/ write_byte_scl_low
    \/ write_byte_mode
    \/ write_byte_reset_read
    \/ write_byte_start_bit
    \/ write_byte_release

\* A falling edge in Write mode at a write position the model no longer
\* counts: MaxWritePos stands for every position from MaxWritePos on.  At
\* each of them ps2_gpio_scl_interrupt_falling_write_bit drives the bit of the
\* buffer at that position and moves on to the next, and none of them is
\* PS2_GPIO_POS_ACK.  The pin write is not added to the wire history.
tx_falling_edge_beyond ==
    /\ mode = PS2_GPIO_MODE_WRITE
    /\ cur_write_pos = MaxWritePos
    /\ scl_pin' = PS2_GPIO_GET_BIT(write_buffer, cur_write_pos)
    /\ event' = Event("falling", "write_bit", 0)
    /\ wb' = IF pc \in WbSteps THEN [wb EXCEPT !.clean = FALSE] ELSE wb
    /\ UNCHANGED <<mode, cur_read_byte, cur_read_pos, write_buffer, cur_write_pos,
                   callback_isr, callback_enabled, data_queue, sda_pin>>
    /\ UNCHANGED <<dev_byte, delivered, cb_received, reads, last_abort, wire>>
    /\ UNCHANGED thread_vars

NextTxFair ==
    \/ NextTx
    \/ tx_falling_edge_beyond

\* what a clock edge or a statement of the thread can change
tx_vars == <<mode, cur_read_byte, cur_read_pos, write_buffer, cur_write_pos,
             scl_pin, sda_pin, pc, delivered, event.outcome>>

\* SpecTxFair: the transmit path with a device that keeps clocking (every
\* clock edge that can be handled eventually is, whatever the write position)
\* and a thread that keeps running.
SpecTxFair ==
    /\ Init
    /\ [][NextTxFair]_vars
    /\ WF_tx_vars(tx_falling_edge)
    /\ WF_tx_vars(tx_falling_edge_beyond)
    /\ WF_tx_vars(ps2_gpio_scl_interrupt_rising_handler)
    /\ WF_tx_vars(write_byte_continue)

-----------------------------------------------------------------------------
(* SpecEncode: ps2_gpio_write_byte called for every byte, one call after   *)
(* another, on a silent line.                                              *)

write_any_byte_begin == WriteByteBegin(Bytes)

NextEncode ==
    \/ write_any_byte_begin
    \/ write_byte_scl_low
    \/ write_byte_mode
    \/ write_byte_reset_read
    \/ write_byte_start_bit
    \/ write_byte_release

SpecEncode == Init /\ [][NextEncode]_vars

-----------------------------------------------------------------------------
(* SpecDispatch: SpecTx on a noisy line, so that falling edges in Read     *)
(* mode also take the abort path while a write is being set up.            *)

dispatch_falling_edge ==
    /\ FallingEdge({DeviceByteList[1]}, TRUE)
    /\ UNCHANGED last_abort

NextDispatch ==
    \/ dispatch_falling_edge
    \/ ps2_gpio_scl_interrupt_rising_handler
    \/ ps2_gpio_write_byte

SpecDispatch == Init /\ [][NextDispatch]_vars

-----------------------------------------------------------------------------
(* The frame as the protocol defines it: start 0, eight data bits          *)
(* LSB-first, odd parity, stop 1.                                          *)

RECURSIVE Ones(_)
Ones(x) == IF x = 0 THEN 0 ELSE (x % 2) + Ones(x \div 2)

FrameBit(b, k) ==
    IF k = 0 THEN 0
    ELSE IF k <= 8 THEN (b \div Pow2(k - 1)) % 2
    ELSE IF k = 9 THEN (IF Ones(b) % 2 = 0 THEN 1 ELSE 0)
    ELSE 1

ProtocolFrame(b) ==
    LET RECURSIVE Sum(_)
        Sum(k) == IF k > 10 THEN 0 ELSE FrameBit(b, k) * Pow2(k) + Sum(k + 1)
    IN  Sum(0)

IsPrefix(p, q) == Len(p) <= Len(q) /\ SubSeq(q, 1, Len(p)) = p

\* a falling edge is about to complete a valid frame: Read mode, stop position
DecodedBy(e) ==
    /\ mode = PS2_GPIO_MODE_READ
    /\ cur_read_pos = PS2_GPIO_POS_STOP
    /\ e.src = "falling"
    /\ e.sda = 1

Registered == callback_isr # NULL /\ callback_enabled

NoneStale(q, at) == \A i \in DOMAIN q : q[i].seq > at

-----------------------------------------------------------------------------
(* Claims                                                                  *)

\* C1: for every byte b, feeding the 11 bits of the frame of b from receive
\* position 0 in Read mode delivers nothing on the first ten edges, each of
\* which advances the position by one, and on the eleventh edge delivers
\* exactly once, the value b, and leaves position 0 and byte 0.
C1_FrameRoundTrip ==
    [][ IF cur_read_pos = PS2_GPIO_POS_STOP
        THEN /\ delivered' = delivered + 1
             /\ event'.outcome = "deliver"
             /\ event'.arg = dev_byte
             /\ IF Registered
                THEN /\ cb_received' = [calls |-> cb_received.calls + 1, last |-> dev_byte]
                     /\ data_queue' = data_queue
                ELSE /\ data_queue' = Append(data_queue, [seq |-> delivered + 1, val |-> dev_byte])
                     /\ cb_received' = cb_received
             /\ cur_read_pos' = 0
             /\ cur_read_byte' = 0
        ELSE /\ cur_read_pos' = cur_read_pos + 1
             /\ delivered' = delivered
             /\ cb_received' = cb_received
             /\ data_queue' = data_queue ]_vars

C1_Witness ==
    /\ dev_byte = 28
    /\ delivered = 1
    /\ event.outcome = "deliver"
    /\ event.arg = 28
    /\ cur_read_pos = 0
    /\ cur_read_byte = 0

\* C2: when write(byte) returns success, a write transaction for that byte has
\* been started: the write buffer holds the frame of byte, the mode is Write
\* and the start bit is on the data line.
C2_WriteStartsTransaction ==
    (event.outcome = "return" /\ event.op = "write" /\ event.val = "0")
        => /\ write_buffer = ProtocolFrame(event.arg)
           /\ mode = PS2_GPIO_MODE_WRITE
           /\ sda_pin = 0

\* C3: a write of byte b that no falling edge disturbs before the clock is
\* released drives the lines in this order: clock low (before the mode becomes
\* Write), data 0, clock high, then on the next ten falling edges data = bit 1,
\* 2, ..., 10 of the frame of b.
ExpectedWire(b) ==
    <<<<"scl", 0>>, <<"sda", 0>>, <<"scl", 1>>>>
        \o [k \in 1..10 |-> <<"sda", FrameBit(b, k)>>]

C3_TransmitSequence ==
    wb.clean =>
        /\ IsPrefix(SubSeq(wire, 1, IF Len(wire) < 13 THEN Len(wire) ELSE 13),
                    ExpectedWire(wb.byte))
        /\ pc \in {"wb_sleep", "wb_reset_byte", "wb_reset_pos", "wb_start_bit",
                  "wb_advance", "wb_release"} => Len(wire) >= 1

\* C4: every receive abort resets the receive accumulator and starts a write
\* transaction carrying the resend command 0xFE: the mode is Write and the
\* write buffer holds the frame of 0xFE.
C4_AbortRequestsResend ==
    event.outcome = "abort"
        => /\ cur_read_pos = 0
           /\ cur_read_byte = 0
           /\ mode = PS2_GPIO_MODE_WRITE
           /\ write_buffer = ProtocolFrame(254)

\* C5: every decoded byte is handed over exactly once: to the listener and not
\* to the queue when a callback is registered and enabled, to the queue and not
\* to the listener otherwise; no other step calls the listener or adds to the
\* queue.
C5_HandedOverOnce ==
    [][ IF DecodedBy(event')
        THEN /\ delivered' = delivered + 1
             /\ IF Registered
                THEN /\ cb_received' =
                          [calls |-> cb_received.calls + 1, last |-> cur_read_byte]
                     /\ data_queue' = data_queue
                ELSE /\ data_queue' =
                          Append(data_queue, [seq |-> delivered + 1, val |-> cur_read_byte])
                     /\ cb_received' = cb_received
        ELSE /\ delivered' = delivered
             /\ cb_received' = cb_received
             /\ \/ data_queue' = data_queue
                \/ data_queue # <<>> /\ data_queue' = Tail(data_queue) ]_vars

C5_Witness ==
    /\ delivered = 2
    /\ cb_received.calls = 1
    /\ Len(data_queue) = 1
    /\ data_queue[1].seq = 2

\* C6: with no callback enabled, the k-th successful read returns the value of
\* the k-th delivered byte.
C6_ReadsReturnBytesInOrder ==
    (event.outcome = "return" /\ event.op = "read" /\ event.val = "0")
        => /\ event.arg.seq = reads
           /\ out_value = event.arg.val

\* C7: when enable_callback() or disable_callback() returns, no byte that was
\* delivered before the call is in the queue, whatever deliveries the receive
\* interrupt interleaved with the call.
C7_ToggleDiscardsStale ==
    (event.outcome = "return" /\ event.op \in {"enable_callback", "disable_callback"})
        => NoneStale(data_queue, event.since.at)

C7_Witness ==
    /\ event.outcome = "return"
    /\ event.op = "disable_callback"
    /\ event.since.queued >= 1
    /\ Len(data_queue) = 1
    /\ data_queue[1].seq > event.since.at

\* C8: read() that finds the queue empty returns only once the timeout of 2
\* seconds has elapsed, with the timeout result, and leaves the caller's output
\* byte and the driver state unchanged.
C8_ReadTimeout ==
    [][ (pc = "read_wait" /\ pc' = "idle" /\ data_queue = <<>>)
        => /\ event'.val = "-ETIMEDOUT"
           /\ elapsed = PS2_GPIO_TIMEOUT_READ
           /\ out_value' = out_value
           /\ UNCHANGED drv_vars ]_vars

C8_Witness ==
    /\ event.outcome = "return"
    /\ event.op = "read"
    /\ event.val = "-ETIMEDOUT"
    /\ elapsed = PS2_GPIO_TIMEOUT_READ
    /\ out_value # 0

\* C9: configure() with a null listener returns an error at once and leaves
\* the listener, the enabled flag and the queue unchanged; with a non-null
\* listener it returns success with that listener registered and enabled.
C9_Configure ==
    [][ (event'.outcome = "return" /\ event'.op = "configure")
        => IF event'.arg = NULL
           THEN /\ pc = "idle"
                /\ event'.val = "-EINVAL"
                /\ UNCHANGED <<callback_isr, callback_enabled, data_queue>>
           ELSE /\ event'.val = "0"
                /\ callback_isr' = event'.arg
                /\ callback_enabled' ]_vars

C9_Witness ==
    /\ event.outcome = "return"
    /\ event.op = "configure"
    /\ event.val = "-EINVAL"
    /\ callback_isr \in Listeners
    /\ callback_enabled

\* C10 as claimed: enable_callback() while no listener is registered returns
\* an error, and no step of it changes the enabled flag or the queue.
C10_EnableRejected ==
    [][ ((op = "enable_callback" \/ op' = "enable_callback")
            /\ event'.src = "thread" /\ callback_isr = NULL)
        => /\ (event'.outcome = "return" => event'.val # "0")
           /\ callback_enabled' = callback_enabled
           /\ data_queue' = data_queue ]_vars

\* C10 amended: enable_callback() while no listener is registered is accepted:
\* it returns success with the enabled flag set and with no byte in the queue
\* that was delivered before the call.
C10_EnableWithoutListener ==
    (event.outcome = "return" /\ event.op = "enable_callback" /\ callback_isr = NULL)
        => /\ event.val = "0"
           /\ callback_enabled
           /\ NoneStale(data_queue, event.since.at)

C10_Witness ==
    /\ event.outcome = "return"
    /\ event.op = "enable_callback"
    /\ event.val = "0"
    /\ callback_isr = NULL
    /\ callback_enabled
    /\ event.since.queued >= 1
    /\ data_queue = <<>>

\* C11: in Read mode at receive position 0, a falling edge that samples data = 1
\* aborts: the position stays 0, the accumulated byte is 0, and nothing is
\* delivered (the listener is not called and the queue does not grow).
C11_StartBitAbort ==
    [][ (mode = PS2_GPIO_MODE_READ /\ cur_read_pos = PS2_GPIO_POS_START
            /\ event'.src = "falling" /\ event'.sda = 1)
        => /\ event'.outcome = "abort"
           /\ cur_read_pos' = 0
           /\ cur_read_byte' = 0
           /\ delivered' = delivered
           /\ cb_received' = cb_received
           /\ data_queue' = data_queue ]_vars

C11_Witness ==
    /\ event.outcome = "abort"
    /\ event.pos = PS2_GPIO_POS_START
    /\ event.sda = 1
    /\ cur_read_pos = 0
    /\ cur_read_byte = 0
    /\ delivered = 1
    /\ Len(data_queue) = 1

\* C12: for every byte b, a frame with the start and data bits of the frame of
\* b whose parity bit (position 9) arrives flipped, or whose stop bit (position
\* 10) arrives as 0, is aborted at that position: receive position and byte
\* are reset to 0 and b is delivered neither to the listener nor to the queue.
C12_ParityStopAbort ==
    [][ (event'.src = "falling"
            /\ \/ cur_read_pos = PS2_GPIO_POS_PARITY /\ event'.sda # FrameBit(dev_byte, 9)
               \/ cur_read_pos = PS2_GPIO_POS_STOP /\ event'.sda = 0)
        => /\ event'.outcome = "abort"
           /\ event'.pos = cur_read_pos
           /\ cur_read_pos' = 0
           /\ cur_read_byte' = 0
           /\ delivered' = delivered
           /\ cb_received' = cb_received
           /\ data_queue' = data_queue ]_vars

C12_Witness ==
    /\ event.outcome = "abort"
    /\ event.pos = PS2_GPIO_POS_PARITY
    /\ event.sda # FrameBit(dev_byte, 9)
    /\ dev_byte = 170
    /\ cur_read_pos = 0
    /\ cur_read_byte = 0
    /\ delivered = 1
    /\ cb_received.calls + Len(data_queue) = 1

\* C13: for every byte b in 0..255 the frame the encoder builds has bit 0 = 0,
\* bits 1..8 equal to bits 0..7 of b, bit 10 = 1, and at bit 9 a parity bit
\* that makes the number of set bits among the 8 data bits and the parity bit
\* odd.
C13_EncodedFrame ==
    wb.clean =>
        LET b == wb.byte
            bit(k) == (write_buffer \div Pow2(k)) % 2
        IN  /\ bit(0) = 0
            /\ \A k \in 1..8 : bit(k) = (b \div Pow2(k - 1)) % 2
            /\ bit(10) = 1
            /\ (Ones(b) + bit(9)) % 2 = 1

C13_Witness ==
    /\ wb.clean
    /\ wb.byte = 170
    /\ write_buffer = 1876
    /\ event.outcome = "return"
    /\ event.op = "write_byte"

\* C14: every period in Write mode ends: unless write requests keep arriving
\* for ever, a device that keeps clocking brings the transaction to the ack
\* check, after which the mode is Read, the write position 0 and the write
\* buffer empty.
WriteRequested == pc = "wb_scl_low"

C14_WriteTerminates ==
    \/ []<>WriteRequested
    \/ (mode = PS2_GPIO_MODE_WRITE)
          ~> (mode = PS2_GPIO_MODE_READ /\ cur_write_pos = 0 /\ write_buffer = 0)

\* C15: after a receive abort at any position reception restarts: the abort
\* leaves position 0, byte 0 and Read mode, and for every byte b each sample of
\* a valid frame of b is accepted, the first ten without a delivery and the
\* eleventh delivering exactly once the value b, whatever bits the aborted
\* frame had accumulated.
C15_RestartAfterAbort ==
    [][ /\ event'.outcome = "abort"
            => /\ cur_read_pos' = 0
               /\ cur_read_byte' = 0
               /\ mode' = PS2_GPIO_MODE_READ
        /\ (event'.src = "falling" /\ event'.sda = FrameBit(dev_byte', cur_read_pos))
            => IF cur_read_pos = PS2_GPIO_POS_STOP
               THEN /\ event'.outcome = "deliver"
                    /\ event'.arg = dev_byte
                    /\ delivered' = delivered + 1
                    /\ IF Registered
                       THEN /\ cb_received' =
                                 [calls |-> cb_received.calls + 1, last |-> dev_byte]
                            /\ data_queue' = data_queue
                       ELSE /\ data_queue' =
                                 Append(data_queue, [seq |-> delivered + 1, val |-> dev_byte])
                            /\ cb_received' = cb_received
                    /\ cur_read_pos' = 0
                    /\ cur_read_byte' = 0
               ELSE /\ event'.outcome = "advance"
                    /\ cur_read_pos' = cur_read_pos + 1
                    /\ delivered' = delivered
                    /\ cb_received' = cb_received
                    /\ data_queue' = data_queue ]_vars

\* the first delivery, of 28, follows a frame of 227 aborted at its parity bit
C15_Witness ==
    /\ event.outcome = "deliver"
    /\ event.arg = 28
    /\ dev_byte = 28
    /\ delivered = 1
    /\ last_abort = [pos |-> PS2_GPIO_POS_PARITY, acc |-> 227]
    /\ cur_read_pos = 0
    /\ cur_read_byte = 0

\* C16: a write issued while a reception is in progress abandons it: when
\* ps2_gpio_write_byte has switched the mode to Write and cleared the
\* accumulator, receive position and byte are 0; between the switch and the
\* clearing nothing of the partial frame is delivered; and when the write
\* completes (ack check) position and byte are 0, so that the next falling
\* edge in Read mode is taken as a start bit.
ClearingAccumulator == pc \in {"wb_reset_byte", "wb_reset_pos"}

C16_WriteAbandonsReception ==
    [][ /\ (pc = "wb_reset_pos" /\ pc' = "wb_start_bit")
            => (cur_read_pos' = 0 /\ cur_read_byte' = 0)
        /\ ClearingAccumulator
            => /\ delivered' = delivered
               /\ cb_received' = cb_received
               /\ data_queue' = data_queue
        /\ event'.outcome = "ack"
            => (cur_read_pos' = 0 /\ cur_read_byte' = 0) ]_vars

\* C17: the ack check, a rising edge at write position 11, clears the write
\* buffer, sets the write position to 0 and the mode to Read whether the ack
\* sampled is 0 or 1, and starts no new write: it drives no pin and leaves the
\* thread where it is.
C17_AckCheckResets ==
    [][ (cur_write_pos = PS2_GPIO_POS_ACK /\ event'.src = "rising")
        => /\ event'.outcome = "ack"
           /\ write_buffer' = 0
           /\ cur_write_pos' = 0
           /\ mode' = PS2_GPIO_MODE_READ
           /\ UNCHANGED <<scl_pin, sda_pin, wire, pc, op, arg>> ]_vars

C17_Witness ==
    /\ event.outcome = "ack"
    /\ event.sda = 1
    /\ mode = PS2_GPIO_MODE_READ
    /\ cur_write_pos = 0
    /\ write_buffer = 0
    /\ wb.clean
    /\ Len(wire) = 13

\* C18: a falling edge is handled by the state machine of the current mode
\* only: in Write mode it leaves receive position, receive byte, queue and
\* listener untouched; in Read mode it leaves write buffer and write position
\* unchanged and writes no pin; in neither mode does it change the mode.
C18_DispatchByMode ==
    [][ event'.src = "falling"
        => /\ mode' = mode
           /\ IF mode = PS2_GPIO_MODE_WRITE
              THEN /\ event'.outcome = "write_bit"
                   /\ UNCHANGED <<cur_read_pos, cur_read_byte, data_queue,
                                  cb_received, delivered>>
              ELSE /\ event'.outcome \in {"advance", "abort", "deliver"}
                   /\ UNCHANGED <<write_buffer, cur_write_pos, sda_pin, scl_pin, wire>> ]_vars

\* a frame is aborted at its parity bit in Read mode while a write has loaded
\* the write buffer and not yet switched the mode
C18_Witness ==
    /\ event.outcome = "abort"
    /\ event.pos = PS2_GPIO_POS_PARITY
    /\ mode = PS2_GPIO_MODE_READ
    /\ pc = "wb_sleep"
    /\ write_buffer = EncodeFrame(wb.byte)
    /\ write_buffer # 0
    /\ cur_write_pos = 0

\* C19: a rising edge runs the ack check exactly when the write position is
\* 11; at any other write position it leaves mode, write buffer, write position
\* and receive accumulator unchanged.  Every rising edge in Read mode is of
\* that kind, and so is the rising edge that follows the release of the clock
\* by a write no falling edge disturbed.
RisingIgnored ==
    UNCHANGED <<mode, write_buffer, cur_write_pos, cur_read_pos, cur_read_byte>>

C20_PositionsInRange ==
    [][ /\ cur_write_pos' \in 0..PS2_GPIO_POS_ACK
        /\ cur_read_pos' \in 0..PS2_GPIO_POS_STOP
        /\ event'.outcome = "write_bit" => cur_write_pos <= PS2_GPIO_POS_STOP ]_vars

====
